---- MODULE Spec2Model ----
(***************************************************************************)
(* HyperERC721 (contracts/HyperERC721.sol): an ERC721 collection built on  *)
(* OpenZeppelin Contracts 5.x (ERC721, ERC721Enumerable, ERC721URIStorage, *)
(* ERC721Pausable, Ownable) with owner mint, public mint, royalty          *)
(* settings, withdrawal and a token URI resolution policy.                 *)
(*                                                                         *)
(* One state of the model is one state of the contract's storage between   *)
(* two calls (or, under SpecReentrant, at a recipient callback), plus      *)
(* `last`, the record of the most recent call and of its outcome.  A call  *)
(* that reverts changes nothing but `last`.                                *)
(*                                                                         *)
(* Amounts of ether are counted in units of 0.01 ether.  uint256           *)
(* arithmetic is checked arithmetic (Solidity ^0.8): a sum or product      *)
(* above the largest representable value reverts with Panic(0x11).  The    *)
(* model scales the largest value down to UintMax.                         *)
(***************************************************************************)
EXTENDS Integers, Sequences, FiniteSets, TLC

VARIABLES
    _nextTokenId,        \* uint256 private _nextTokenId
    maxSupply,           \* uint256 public maxSupply
    publicMintPrice,     \* uint256 public publicMintPrice
    maxMintsPerAddress,  \* uint256 public maxMintsPerAddress
    publicMintEnabled,   \* bool public publicMintEnabled
    _baseTokenURI,       \* string private _baseTokenURI
    useJsonExtension,    \* bool public useJsonExtension
    royaltyRecipient,    \* address public royaltyRecipient
    royaltyFeeBps,       \* uint96 public royaltyFeeBps
    mintsPerAddress,     \* mapping(address => uint256) public mintsPerAddress
    _owners,             \* ERC721: mapping(uint256 tokenId => address)
    _tokenURIs,          \* ERC721URIStorage: mapping(uint256 tokenId => string)
    _paused,             \* Pausable: bool private _paused
    _owner,              \* Ownable: address private _owner
    balance,             \* address(this).balance
    stack,               \* mint loops suspended in a recipient's callback
    baseSet,             \* history: argument of the last successful setBaseURI
    last                 \* the most recent call and its outcome

vars == <<_nextTokenId, maxSupply, publicMintPrice, maxMintsPerAddress,
          publicMintEnabled, _baseTokenURI, useJsonExtension, royaltyRecipient,
          royaltyFeeBps, mintsPerAddress, _owners, _tokenURIs, _paused, _owner,
          balance, stack, baseSet, last>>

\* The contract's storage and balance: everything a reverted call restores.
contractState == <<_nextTokenId, maxSupply, publicMintPrice, maxMintsPerAddress,
                   publicMintEnabled, _baseTokenURI, useJsonExtension,
                   royaltyRecipient, royaltyFeeBps, mintsPerAddress, _owners,
                   _tokenURIs, _paused, _owner, balance>>

-----------------------------------------------------------------------------
(* Bounds of the model *)

MaxSupplyArg == 3     \* largest maxSupply_ given to the constructor
MaxQuantity == 2      \* largest ordinary quantity of a mint call
MaxValue == 2         \* largest msg.value of a publicMint call
MaxPerAddressArg == 2 \* largest maxPerAddress given to setPublicMintSettings
MaxBalance == 3       \* largest contract balance followed
UintMax == 10000000   \* stands for type(uint256).max
MaxSalePrice == 20    \* largest ordinary salePrice of a royaltyInfo call

(* Program constants *)

FirstTokenId == 1           \* _nextTokenId = 1
DefaultMintPrice == 1       \* publicMintPrice = 0.01 ether
DefaultMaxMints == 10       \* maxMintsPerAddress = 10
MaxRoyaltyBps == 1000       \* require(feeBps <= 1000)
DeployRoyaltyBps == 500     \* ROYALTY_FEE_BPS of the deployment and the tests
RoyaltyDenominator == 10000 \* (salePrice * royaltyFeeBps) / 10000
TestSalePrice == 10000      \* salePrice of the royalty tests

-----------------------------------------------------------------------------
(* Accounts *)

ZeroAddress == "0x0"
Owner == "owner"          \* the deployer: Ownable(msg.sender)
Addr1 == "addr1"          \* another externally owned account
Hook == "hook"            \* a contract account implementing onERC721Received
Accounts == {Owner, Addr1}
Contracts == {Hook}

BaseURIs == {"", "a/", "b/"}
JsonExtension == ".json"

-----------------------------------------------------------------------------
(* Strings.toString(uint256): the decimal digits, most significant first. *)

Digit(d) ==
    CASE d = 0 -> "0" [] d = 1 -> "1" [] d = 2 -> "2" [] d = 3 -> "3"
      [] d = 4 -> "4" [] d = 5 -> "5" [] d = 6 -> "6" [] d = 7 -> "7"
      [] d = 8 -> "8" [] d = 9 -> "9"

RECURSIVE toString(_)
toString(n) ==
    IF n < 10 THEN Digit(n) ELSE toString(n \div 10) \o Digit(n % 10)

(* Mappings default to the zero value. *)

_ownerOf(tokenId) ==
    IF tokenId \in DOMAIN _owners THEN _owners[tokenId] ELSE ZeroAddress

_tokenURIOf(tokenId) ==
    IF tokenId \in DOMAIN _tokenURIs THEN _tokenURIs[tokenId] ELSE ""

mintsOf(a) ==
    IF a \in DOMAIN mintsPerAddress THEN mintsPerAddress[a] ELSE 0

balanceOf(a) == Cardinality({t \in DOMAIN _owners : _owners[t] = a})

nextTokenId == _nextTokenId

totalMinted == _nextTokenId - 1

_baseURI == _baseTokenURI

Ok(ret) == [err |-> "", ret |-> ret]
Revert(err) == [err |-> err, ret |-> ""]

-----------------------------------------------------------------------------
(* Token URI resolution *)

\* ERC721.tokenURI: base + tokenId, or "" without a base.
ERC721_tokenURI(tokenId) ==
    IF Len(_baseURI) > 0 THEN _baseURI \o toString(tokenId) ELSE ""

\* Faulty variant: the empty base is not told apart.
ERC721URIStorage_tokenURI_noBaseCheck(tokenId) ==
    IF Len(_tokenURIOf(tokenId)) > 0 THEN _baseURI \o _tokenURIOf(tokenId)
    ELSE _baseURI \o toString(tokenId)

\* ERC721URIStorage.tokenURI: the stored URI alone without a base, base +
\* stored URI when both are set, else ERC721.tokenURI.
ERC721URIStorage_tokenURI(tokenId) ==
    LET _tokenURI == _tokenURIOf(tokenId)
        base == _baseURI
    IN  IF Len(base) = 0 THEN _tokenURI
        ELSE IF Len(_tokenURI) > 0 THEN base \o _tokenURI
        ELSE ERC721_tokenURI(tokenId)

\* Faulty variants of tokenURI: the flag ignored; the stored URI returned as it
\* is; no fall-through to the flag rule; no existence check.
tokenURI_alwaysJson(tokenId) ==
    IF _ownerOf(tokenId) = ZeroAddress THEN Revert("ERC721NonexistentToken")
    ELSE Ok(_baseURI \o toString(tokenId) \o JsonExtension)

tokenURI_rawOverride(tokenId) ==
    IF _ownerOf(tokenId) = ZeroAddress THEN Revert("ERC721NonexistentToken")
    ELSE IF Len(_tokenURIOf(tokenId)) > 0 THEN Ok(_tokenURIOf(tokenId))
    ELSE IF Len(_baseURI) = 0 THEN Ok("")
    ELSE IF useJsonExtension
         THEN Ok(_baseURI \o toString(tokenId) \o JsonExtension)
         ELSE Ok(_baseURI \o toString(tokenId))

tokenURI_noFallThrough(tokenId) ==
    IF _ownerOf(tokenId) = ZeroAddress THEN Revert("ERC721NonexistentToken")
    ELSE IF Len(_baseURI) = 0 \/ Len(_tokenURIOf(tokenId)) > 0
         THEN Ok(ERC721URIStorage_tokenURI(tokenId))
    ELSE IF useJsonExtension
         THEN Ok(_baseURI \o toString(tokenId) \o JsonExtension)
         ELSE Ok(_baseURI \o toString(tokenId))

tokenURI_noExistenceCheck(tokenId) ==
    IF Len(_baseURI) = 0 THEN Ok(ERC721URIStorage_tokenURI(tokenId))
    ELSE IF ERC721URIStorage_tokenURI(tokenId) # _baseURI \o toString(tokenId)
         THEN Ok(ERC721URIStorage_tokenURI(tokenId))
    ELSE IF useJsonExtension
         THEN Ok(_baseURI \o toString(tokenId) \o JsonExtension)
         ELSE Ok(_baseURI \o toString(tokenId))

tokenURI(tokenId) ==
    IF _ownerOf(tokenId) = ZeroAddress
    THEN Revert("ERC721NonexistentToken")             \* _requireOwned
    ELSE
      LET parentURI == ERC721URIStorage_tokenURI(tokenId)
          baseURI == _baseURI
          defaultTokenIdStr == toString(tokenId)
          expectedBaseURI == baseURI \o defaultTokenIdStr
      IN  IF Len(baseURI) = 0 THEN Ok(parentURI)
          ELSE IF parentURI # expectedBaseURI THEN Ok(parentURI)
          ELSE IF useJsonExtension
               THEN Ok(baseURI \o defaultTokenIdStr \o JsonExtension)
               ELSE Ok(baseURI \o defaultTokenIdStr)

-----------------------------------------------------------------------------
(* Construction *)

NoCall == [op |-> "constructor", sender |-> Owner, err |-> ""]
Unset == [set |-> FALSE]

\* constructor(name, symbol, maxSupply_, baseURI, royaltyRecipient_,
\* royaltyFeeBps_, useJsonExtension_), deployed by Owner.
constructor(maxSupply_, baseURI, royaltyRecipient_, royaltyFeeBps_, useJsonExtension_) ==
    /\ maxSupply = maxSupply_
    /\ _baseTokenURI = baseURI
    /\ royaltyRecipient = royaltyRecipient_
    /\ royaltyFeeBps = royaltyFeeBps_
    /\ useJsonExtension = useJsonExtension_
    /\ _nextTokenId = FirstTokenId
    /\ publicMintPrice = DefaultMintPrice
    /\ maxMintsPerAddress = DefaultMaxMints
    /\ publicMintEnabled = FALSE
    /\ mintsPerAddress = [a \in {} |-> 0]
    /\ _owners = [t \in {} |-> ZeroAddress]
    /\ _tokenURIs = [t \in {} |-> ""]
    /\ _paused = FALSE
    /\ _owner = Owner
    /\ balance = 0
    /\ stack = <<>>
    /\ baseSet = Unset
    /\ last = NoCall

MaxSupplyArgs == (MaxSupplyArg - 1)..MaxSupplyArg

\* Any base URI and flag.
Init ==
    \E ms \in MaxSupplyArgs, b \in BaseURIs, f \in BOOLEAN :
        constructor(ms, b, Owner, DeployRoyaltyBps, f)

\* The metadata arguments of the test deployment: a base URI, ".json" on.
InitTest ==
    \E ms \in MaxSupplyArgs : constructor(ms, "a/", Owner, DeployRoyaltyBps, TRUE)

-----------------------------------------------------------------------------
(* Modifiers and checks *)

\* Ownable.onlyOwner: _checkOwner reverts unless owner() == _msgSender().
\* Faulty variant: no owner check.
onlyOwner_anyone(sender) == TRUE

onlyOwner(sender) == sender = _owner

\* Checked uint256 addition and multiplication revert above the largest value.
addOverflows(a, b) == a + b > UintMax

\* a * b > UintMax, without forming a product above it
mulOverflows(a, b) == b # 0 /\ a > UintMax \div b

\* Faulty variant: one token too many.
exceedsMaxSupply_offByOne(quantity) == _nextTokenId + quantity - 1 > maxSupply + 1

\* require(_nextTokenId + quantity - 1 <= maxSupply, "Exceeds maximum supply")
exceedsMaxSupply(quantity) == _nextTokenId + quantity - 1 > maxSupply

-----------------------------------------------------------------------------
(* Minting.  m = [next, owners, err] is the loop's view of _nextTokenId and   *)
(* _owners; err is set by the first _safeMint that reverts.                   *)

\* Faulty variant: the counter is left as it is, the id is given out again.
mintOne_noIncrement(to, m) ==
    LET tokenId == m.next IN
    IF to = ZeroAddress THEN [m EXCEPT !.err = "ERC721InvalidReceiver"]
    ELSE IF _paused THEN [m EXCEPT !.err = "EnforcedPause"]
    ELSE [next |-> tokenId, owners |-> (tokenId :> to) @@ m.owners, err |-> ""]

\* Faulty variant: the counter incremented twice, no check of the id.
mintOne_doubleIncrement(to, m) ==
    LET tokenId == m.next IN
    IF to = ZeroAddress THEN [m EXCEPT !.err = "ERC721InvalidReceiver"]
    ELSE IF _paused THEN [m EXCEPT !.err = "EnforcedPause"]
    ELSE [next |-> tokenId + 2, owners |-> (tokenId :> to) @@ m.owners, err |-> ""]

\* One iteration: tokenId = _nextTokenId; _nextTokenId++; _safeMint(to, tokenId)
\* up to the recipient check.  _mint rejects the zero address, _update (of
\* ERC721Pausable) requires the contract not to be paused, and _mint rejects a
\* token that already has an owner.
mintOne(to, m) ==
    LET tokenId == m.next IN
    IF to = ZeroAddress THEN [m EXCEPT !.err = "ERC721InvalidReceiver"]
    ELSE IF _paused THEN [m EXCEPT !.err = "EnforcedPause"]
    ELSE IF tokenId \in DOMAIN m.owners /\ m.owners[tokenId] # ZeroAddress
         THEN [m EXCEPT !.err = "ERC721InvalidSender"]
    ELSE [next |-> tokenId + 1, owners |-> (tokenId :> to) @@ m.owners, err |-> ""]

\* for (uint256 i = 0; i < quantity; i++) { ... }, with no recipient callback
RECURSIVE mintLoop(_, _, _)
mintLoop(to, quantity, m) ==
    IF quantity = 0 \/ m.err # "" THEN m
    ELSE mintLoop(to, quantity - 1, mintOne(to, m))

loopStart == [next |-> _nextTokenId, owners |-> _owners, err |-> ""]

\* mint(to, quantity): the outcome of the whole call.
mint(sender, to, quantity) ==
    IF ~onlyOwner(sender) THEN [loopStart EXCEPT !.err = "OwnableUnauthorizedAccount"]
    ELSE IF addOverflows(_nextTokenId, quantity) THEN [loopStart EXCEPT !.err = "Panic"]
    ELSE IF exceedsMaxSupply(quantity)
         THEN [loopStart EXCEPT !.err = "Exceeds maximum supply"]
    ELSE mintLoop(to, quantity, loopStart)

\* Faulty variant: the exact price is turned away.
publicMintCheck_strictPayment(sender, quantity, value) ==
    IF _paused THEN "EnforcedPause"
    ELSE IF ~publicMintEnabled THEN "Public mint not enabled"
    ELSE IF ~(quantity > 0) THEN "Quantity must be greater than 0"
    ELSE IF addOverflows(_nextTokenId, quantity) THEN "Panic"
    ELSE IF exceedsMaxSupply(quantity) THEN "Exceeds maximum supply"
    ELSE IF addOverflows(mintsOf(sender), quantity) THEN "Panic"
    ELSE IF mintsOf(sender) + quantity > maxMintsPerAddress
         THEN "Exceeds max mints per address"
    ELSE IF mulOverflows(publicMintPrice, quantity) THEN "Panic"
    ELSE IF value <= publicMintPrice * quantity THEN "Insufficient payment"
    ELSE ""

\* Faulty variant: the tokens held are counted, not the public mints made.
publicMintCheck_byBalance(sender, quantity, value) ==
    IF _paused THEN "EnforcedPause"
    ELSE IF ~publicMintEnabled THEN "Public mint not enabled"
    ELSE IF ~(quantity > 0) THEN "Quantity must be greater than 0"
    ELSE IF addOverflows(_nextTokenId, quantity) THEN "Panic"
    ELSE IF exceedsMaxSupply(quantity) THEN "Exceeds maximum supply"
    ELSE IF addOverflows(balanceOf(sender), quantity) THEN "Panic"
    ELSE IF balanceOf(sender) + quantity > maxMintsPerAddress
         THEN "Exceeds max mints per address"
    ELSE IF mulOverflows(publicMintPrice, quantity) THEN "Panic"
    ELSE IF value < publicMintPrice * quantity THEN "Insufficient payment"
    ELSE ""

\* Faulty variant: one public mint above the maximum is let through.
publicMintCheck_limitOffByOne(sender, quantity, value) ==
    IF _paused THEN "EnforcedPause"
    ELSE IF ~publicMintEnabled THEN "Public mint not enabled"
    ELSE IF ~(quantity > 0) THEN "Quantity must be greater than 0"
    ELSE IF addOverflows(_nextTokenId, quantity) THEN "Panic"
    ELSE IF exceedsMaxSupply(quantity) THEN "Exceeds maximum supply"
    ELSE IF addOverflows(mintsOf(sender), quantity) THEN "Panic"
    ELSE IF mintsOf(sender) + quantity > maxMintsPerAddress + 1
         THEN "Exceeds max mints per address"
    ELSE IF mulOverflows(publicMintPrice, quantity) THEN "Panic"
    ELSE IF value < publicMintPrice * quantity THEN "Insufficient payment"
    ELSE ""

\* Faulty variants: the quantity looked at before the sale switch; the pause
\* looked at after the sale switch.
publicMintCheck_quantityFirst(sender, quantity, value) ==
    IF _paused THEN "EnforcedPause"
    ELSE IF ~(quantity > 0) THEN "Quantity must be greater than 0"
    ELSE IF ~publicMintEnabled THEN "Public mint not enabled"
    ELSE IF addOverflows(_nextTokenId, quantity) THEN "Panic"
    ELSE IF exceedsMaxSupply(quantity) THEN "Exceeds maximum supply"
    ELSE IF addOverflows(mintsOf(sender), quantity) THEN "Panic"
    ELSE IF mintsOf(sender) + quantity > maxMintsPerAddress
         THEN "Exceeds max mints per address"
    ELSE IF mulOverflows(publicMintPrice, quantity) THEN "Panic"
    ELSE IF value < publicMintPrice * quantity THEN "Insufficient payment"
    ELSE ""

publicMintCheck_pauseLate(sender, quantity, value) ==
    IF ~publicMintEnabled THEN "Public mint not enabled"
    ELSE IF _paused THEN "EnforcedPause"
    ELSE IF ~(quantity > 0) THEN "Quantity must be greater than 0"
    ELSE IF addOverflows(_nextTokenId, quantity) THEN "Panic"
    ELSE IF exceedsMaxSupply(quantity) THEN "Exceeds maximum supply"
    ELSE IF addOverflows(mintsOf(sender), quantity) THEN "Panic"
    ELSE IF mintsOf(sender) + quantity > maxMintsPerAddress
         THEN "Exceeds max mints per address"
    ELSE IF mulOverflows(publicMintPrice, quantity) THEN "Panic"
    ELSE IF value < publicMintPrice * quantity THEN "Insufficient payment"
    ELSE ""

\* The require chain of publicMint(quantity), msg.value = value.
publicMintCheck(sender, quantity, value) ==
    IF _paused THEN "EnforcedPause"
    ELSE IF ~publicMintEnabled THEN "Public mint not enabled"
    ELSE IF ~(quantity > 0) THEN "Quantity must be greater than 0"
    ELSE IF addOverflows(_nextTokenId, quantity) THEN "Panic"
    ELSE IF exceedsMaxSupply(quantity) THEN "Exceeds maximum supply"
    ELSE IF addOverflows(mintsOf(sender), quantity) THEN "Panic"
    ELSE IF mintsOf(sender) + quantity > maxMintsPerAddress
         THEN "Exceeds max mints per address"
    ELSE IF mulOverflows(publicMintPrice, quantity) THEN "Panic"
    ELSE IF value < publicMintPrice * quantity THEN "Insufficient payment"
    ELSE ""

publicMint(sender, quantity, value) ==
    LET e == publicMintCheck(sender, quantity, value) IN
    IF e # "" THEN [loopStart EXCEPT !.err = e]
    ELSE mintLoop(sender, quantity, loopStart)

Quantities == 0..MaxQuantity \cup {UintMax}

\* Faulty variant: every token minted is given a URI of its own.
Mint_storingURI(sender, to, quantity) ==
    LET m == mint(sender, to, quantity)
        ids == IF m.err = "" THEN DOMAIN m.owners \ DOMAIN _owners ELSE {}
    IN
    /\ stack = <<>>
    /\ _nextTokenId' = IF m.err = "" THEN m.next ELSE _nextTokenId
    /\ _owners' = IF m.err = "" THEN m.owners ELSE _owners
    /\ _tokenURIs' = [t \in ids |-> "x"] @@ _tokenURIs
    /\ last' = [op |-> "mint", sender |-> sender, to |-> to,
                quantity |-> quantity, err |-> m.err, first |-> _nextTokenId,
                ids |-> ids, reentered |-> FALSE]
    /\ UNCHANGED <<maxSupply, publicMintPrice, maxMintsPerAddress,
                   publicMintEnabled, _baseTokenURI, useJsonExtension,
                   royaltyRecipient, royaltyFeeBps, mintsPerAddress, _paused,
                   _owner, balance, stack, baseSet>>

Mint(sender, to, quantity) ==
    LET m == mint(sender, to, quantity) IN
    /\ stack = <<>>
    /\ _nextTokenId' = IF m.err = "" THEN m.next ELSE _nextTokenId
    /\ _owners' = IF m.err = "" THEN m.owners ELSE _owners
    /\ last' = [op |-> "mint", sender |-> sender, to |-> to,
                quantity |-> quantity, err |-> m.err, first |-> _nextTokenId,
                ids |-> IF m.err = "" THEN DOMAIN m.owners \ DOMAIN _owners ELSE {},
                reentered |-> FALSE]
    /\ UNCHANGED <<maxSupply, publicMintPrice, maxMintsPerAddress,
                   publicMintEnabled, _baseTokenURI, useJsonExtension,
                   royaltyRecipient, royaltyFeeBps, mintsPerAddress, _tokenURIs,
                   _paused, _owner, balance, stack, baseSet>>

\* Faulty variant: only the price is kept, what is paid above it is not.
PublicMint_exactPrice(sender, quantity, value) ==
    LET m == publicMint(sender, quantity, value) IN
    /\ stack = <<>>
    /\ balance + value <= MaxBalance
    /\ _nextTokenId' = IF m.err = "" THEN m.next ELSE _nextTokenId
    /\ _owners' = IF m.err = "" THEN m.owners ELSE _owners
    /\ mintsPerAddress' =
         IF m.err = "" THEN (sender :> (mintsOf(sender) + quantity)) @@ mintsPerAddress
         ELSE mintsPerAddress
    /\ balance' = IF m.err = "" THEN balance + publicMintPrice * quantity
                  ELSE balance
    /\ last' = [op |-> "publicMint", sender |-> sender, to |-> sender,
                quantity |-> quantity, value |-> value, err |-> m.err,
                first |-> _nextTokenId,
                ids |-> IF m.err = "" THEN DOMAIN m.owners \ DOMAIN _owners ELSE {},
                reentered |-> FALSE]
    /\ UNCHANGED <<maxSupply, publicMintPrice, maxMintsPerAddress,
                   publicMintEnabled, _baseTokenURI, useJsonExtension,
                   royaltyRecipient, royaltyFeeBps, _tokenURIs, _paused, _owner,
                   stack, baseSet>>

PublicMint(sender, quantity, value) ==
    LET m == publicMint(sender, quantity, value) IN
    /\ stack = <<>>
    /\ balance + value <= MaxBalance
    /\ _nextTokenId' = IF m.err = "" THEN m.next ELSE _nextTokenId
    /\ _owners' = IF m.err = "" THEN m.owners ELSE _owners
    /\ mintsPerAddress' =
         IF m.err = "" THEN (sender :> (mintsOf(sender) + quantity)) @@ mintsPerAddress
         ELSE mintsPerAddress
    /\ balance' = IF m.err = "" THEN balance + value ELSE balance
    /\ last' = [op |-> "publicMint", sender |-> sender, to |-> sender,
                quantity |-> quantity, value |-> value, err |-> m.err,
                first |-> _nextTokenId,
                ids |-> IF m.err = "" THEN DOMAIN m.owners \ DOMAIN _owners ELSE {},
                reentered |-> FALSE]
    /\ UNCHANGED <<maxSupply, publicMintPrice, maxMintsPerAddress,
                   publicMintEnabled, _baseTokenURI, useJsonExtension,
                   royaltyRecipient, royaltyFeeBps, _tokenURIs, _paused, _owner,
                   stack, baseSet>>

-----------------------------------------------------------------------------
(* Minting to a contract.  _safeMint calls the recipient's onERC721Received   *)
(* after the token is minted, and the recipient may call publicMint again     *)
(* from there.  A frame of `stack` is a mint loop waiting for that callback   *)
(* to return: remaining iterations, the value of _nextTokenId at loop entry  *)
(* (first), the ids minted so far (ids) and whether a mint call was made from *)
(* one of its callbacks (reentered).  A call that reverts, alone or with the  *)
(* transaction around it, leaves the storage as it was: only the calls and    *)
(* callbacks that return are steps here.                                      *)

Frame(fn, sender, to, quantity) ==
    [fn |-> fn, sender |-> sender, to |-> to, quantity |-> quantity,
     remaining |-> quantity - 1, first |-> _nextTokenId, ids |-> {_nextTokenId},
     reentered |-> FALSE]

\* The enclosing loops, marked as re-entered, with the new frame on top.
Push(frame) ==
    Append([i \in DOMAIN stack |-> [stack[i] EXCEPT !.reentered = TRUE]], frame)

InCallback(to, tokenId) ==
    [op |-> "onERC721Received", to |-> to, tokenId |-> tokenId, err |-> ""]

\* mint(to, quantity) by the owner, to a contract: up to the first callback.
MintEnter(sender, to, quantity) ==
    LET m == mintOne(to, loopStart) IN
    /\ stack = <<>>
    /\ to \in Contracts
    /\ quantity > 0
    /\ onlyOwner(sender)
    /\ ~addOverflows(_nextTokenId, quantity)
    /\ ~exceedsMaxSupply(quantity)
    /\ m.err = ""
    /\ _nextTokenId' = m.next
    /\ _owners' = m.owners
    /\ stack' = Push(Frame("mint", sender, to, quantity))
    /\ last' = InCallback(to, _nextTokenId)
    /\ UNCHANGED <<maxSupply, publicMintPrice, maxMintsPerAddress,
                   publicMintEnabled, _baseTokenURI, useJsonExtension,
                   royaltyRecipient, royaltyFeeBps, mintsPerAddress, _tokenURIs,
                   _paused, _owner, balance, baseSet>>

\* publicMint(quantity) by a contract, at the top of a transaction or from
\* inside a callback: up to the first callback.
PublicMintEnter(sender, quantity, value) ==
    LET m == mintOne(sender, loopStart) IN
    /\ sender \in Contracts
    /\ stack # <<>> => stack[Len(stack)].to = sender
    /\ balance + value <= MaxBalance
    /\ publicMintCheck(sender, quantity, value) = ""
    /\ m.err = ""
    /\ mintsPerAddress' = (sender :> (mintsOf(sender) + quantity)) @@ mintsPerAddress
    /\ balance' = balance + value
    /\ _nextTokenId' = m.next
    /\ _owners' = m.owners
    /\ stack' = Push(Frame("publicMint", sender, sender, quantity))
    /\ last' = InCallback(sender, _nextTokenId)
    /\ UNCHANGED <<maxSupply, publicMintPrice, maxMintsPerAddress,
                   publicMintEnabled, _baseTokenURI, useJsonExtension,
                   royaltyRecipient, royaltyFeeBps, _tokenURIs, _paused, _owner,
                   baseSet>>

\* The callback of the innermost loop returns the selector: the loop mints its
\* next token and calls the recipient again, or ends and the call returns.
CallbackReturn ==
    /\ stack # <<>>
    /\ LET f == stack[Len(stack)]
           m == mintOne(f.to, loopStart)
       IN  IF f.remaining > 0
           THEN /\ m.err = ""
                /\ _nextTokenId' = m.next
                /\ _owners' = m.owners
                /\ stack' = [stack EXCEPT ![Len(stack)] =
                               [f EXCEPT !.remaining = @ - 1,
                                         !.ids = @ \cup {_nextTokenId}]]
                /\ last' = InCallback(f.to, _nextTokenId)
           ELSE /\ stack' = SubSeq(stack, 1, Len(stack) - 1)
                /\ last' = [op |-> f.fn, sender |-> f.sender, to |-> f.to,
                            quantity |-> f.quantity, err |-> "",
                            first |-> f.first, ids |-> f.ids,
                            reentered |-> f.reentered]
                /\ UNCHANGED <<_nextTokenId, _owners>>
    /\ UNCHANGED <<maxSupply, publicMintPrice, maxMintsPerAddress,
                   publicMintEnabled, _baseTokenURI, useJsonExtension,
                   royaltyRecipient, royaltyFeeBps, mintsPerAddress, _tokenURIs,
                   _paused, _owner, balance, baseSet>>

-----------------------------------------------------------------------------
(* Transfers *)

\* ERC721.transferFrom(from, to, tokenId) through the _update chain of
\* ERC721Pausable, ERC721Enumerable and ERC721.  No approval is ever given
\* here, so the holder alone is authorized.
transferFromCheck(sender, from, to, tokenId) ==
    IF to = ZeroAddress THEN "ERC721InvalidReceiver"
    ELSE IF _paused THEN "EnforcedPause"
    ELSE IF _ownerOf(tokenId) = ZeroAddress THEN "ERC721NonexistentToken"
    ELSE IF _ownerOf(tokenId) # sender THEN "ERC721InsufficientApproval"
    ELSE IF _ownerOf(tokenId) # from THEN "ERC721IncorrectOwner"
    ELSE ""

TransferFrom(sender, from, to, tokenId) ==
    LET e == transferFromCheck(sender, from, to, tokenId) IN
    /\ stack = <<>>
    /\ _owners' = IF e = "" THEN [_owners EXCEPT ![tokenId] = to] ELSE _owners
    /\ last' = [op |-> "transferFrom", sender |-> sender, from |-> from,
                to |-> to, tokenId |-> tokenId, err |-> e]
    /\ UNCHANGED <<_nextTokenId, maxSupply, publicMintPrice, maxMintsPerAddress,
                   publicMintEnabled, _baseTokenURI, useJsonExtension,
                   royaltyRecipient, royaltyFeeBps, mintsPerAddress, _tokenURIs,
                   _paused, _owner, balance, stack, baseSet>>

-----------------------------------------------------------------------------
(* Administrative functions *)

\* The call before this one was the same successful setBaseURI call.
repeatsLast(op, baseURI) ==
    /\ last.op = op
    /\ last.err = ""
    /\ last.baseURI = baseURI

\* Faulty variant: setting the base it already has clears the base.
SetBaseURI_toggle(sender, baseURI) ==
    LET ok == onlyOwner(sender) IN
    /\ stack = <<>>
    /\ _baseTokenURI' = IF ~ok THEN _baseTokenURI
                        ELSE IF _baseTokenURI = baseURI THEN "" ELSE baseURI
    /\ baseSet' = IF ok THEN [set |-> TRUE, uri |-> baseURI] ELSE baseSet
    /\ last' = [op |-> "setBaseURI", sender |-> sender, baseURI |-> baseURI,
                err |-> IF ok THEN "" ELSE "OwnableUnauthorizedAccount",
                again |-> ok /\ repeatsLast("setBaseURI", baseURI)]
    /\ UNCHANGED <<_nextTokenId, maxSupply, publicMintPrice, maxMintsPerAddress,
                   publicMintEnabled, useJsonExtension, royaltyRecipient,
                   royaltyFeeBps, mintsPerAddress, _owners, _tokenURIs, _paused,
                   _owner, balance, stack>>

\* Faulty variant: a base URI once set is kept.
SetBaseURI_keepFirst(sender, baseURI) ==
    LET ok == onlyOwner(sender) IN
    /\ stack = <<>>
    /\ _baseTokenURI' = IF ok /\ _baseTokenURI = "" THEN baseURI ELSE _baseTokenURI
    /\ baseSet' = IF ok THEN [set |-> TRUE, uri |-> baseURI] ELSE baseSet
    /\ last' = [op |-> "setBaseURI", sender |-> sender, baseURI |-> baseURI,
                err |-> IF ok THEN "" ELSE "OwnableUnauthorizedAccount",
                again |-> ok /\ repeatsLast("setBaseURI", baseURI)]
    /\ UNCHANGED <<_nextTokenId, maxSupply, publicMintPrice, maxMintsPerAddress,
                   publicMintEnabled, useJsonExtension, royaltyRecipient,
                   royaltyFeeBps, mintsPerAddress, _owners, _tokenURIs, _paused,
                   _owner, balance, stack>>

SetBaseURI(sender, baseURI) ==
    LET ok == onlyOwner(sender) IN
    /\ stack = <<>>
    /\ _baseTokenURI' = IF ok THEN baseURI ELSE _baseTokenURI
    /\ baseSet' = IF ok THEN [set |-> TRUE, uri |-> baseURI] ELSE baseSet
    /\ last' = [op |-> "setBaseURI", sender |-> sender, baseURI |-> baseURI,
                err |-> IF ok THEN "" ELSE "OwnableUnauthorizedAccount",
                again |-> ok /\ repeatsLast("setBaseURI", baseURI)]
    /\ UNCHANGED <<_nextTokenId, maxSupply, publicMintPrice, maxMintsPerAddress,
                   publicMintEnabled, useJsonExtension, royaltyRecipient,
                   royaltyFeeBps, mintsPerAddress, _owners, _tokenURIs, _paused,
                   _owner, balance, stack>>

\* Faulty variant: the flag cannot be switched off.
SetJsonExtension_sticky(sender, useExtension) ==
    LET ok == onlyOwner(sender) IN
    /\ stack = <<>>
    /\ useJsonExtension' = (useJsonExtension \/ (ok /\ useExtension))
    /\ last' = [op |-> "setJsonExtension", sender |-> sender,
                useExtension |-> useExtension,
                err |-> IF ok THEN "" ELSE "OwnableUnauthorizedAccount"]
    /\ UNCHANGED <<_nextTokenId, maxSupply, publicMintPrice, maxMintsPerAddress,
                   publicMintEnabled, _baseTokenURI, royaltyRecipient,
                   royaltyFeeBps, mintsPerAddress, _owners, _tokenURIs, _paused,
                   _owner, balance, stack, baseSet>>

SetJsonExtension(sender, useExtension) ==
    LET ok == onlyOwner(sender) IN
    /\ stack = <<>>
    /\ useJsonExtension' = IF ok THEN useExtension ELSE useJsonExtension
    /\ last' = [op |-> "setJsonExtension", sender |-> sender,
                useExtension |-> useExtension,
                err |-> IF ok THEN "" ELSE "OwnableUnauthorizedAccount"]
    /\ UNCHANGED <<_nextTokenId, maxSupply, publicMintPrice, maxMintsPerAddress,
                   publicMintEnabled, _baseTokenURI, royaltyRecipient,
                   royaltyFeeBps, mintsPerAddress, _owners, _tokenURIs, _paused,
                   _owner, balance, stack, baseSet>>

SetPublicMintSettings(sender, enabled, price, maxPerAddress) ==
    LET ok == onlyOwner(sender) IN
    /\ stack = <<>>
    /\ publicMintEnabled' = IF ok THEN enabled ELSE publicMintEnabled
    /\ publicMintPrice' = IF ok THEN price ELSE publicMintPrice
    /\ maxMintsPerAddress' = IF ok THEN maxPerAddress ELSE maxMintsPerAddress
    /\ last' = [op |-> "setPublicMintSettings", sender |-> sender,
                err |-> IF ok THEN "" ELSE "OwnableUnauthorizedAccount"]
    /\ UNCHANGED <<_nextTokenId, maxSupply, _baseTokenURI, useJsonExtension,
                   royaltyRecipient, royaltyFeeBps, mintsPerAddress, _owners,
                   _tokenURIs, _paused, _owner, balance, stack, baseSet>>

\* Faulty variant: a fee of exactly 10% is turned away.
setRoyaltyInfoCheck_strict(sender, feeBps) ==
    IF ~onlyOwner(sender) THEN "OwnableUnauthorizedAccount"
    ELSE IF ~(feeBps < MaxRoyaltyBps) THEN "Royalty fee too high"
    ELSE ""

setRoyaltyInfoCheck(sender, feeBps) ==
    IF ~onlyOwner(sender) THEN "OwnableUnauthorizedAccount"
    ELSE IF ~(feeBps <= MaxRoyaltyBps) THEN "Royalty fee too high"
    ELSE ""

SetRoyaltyInfo(sender, recipient, feeBps) ==
    LET e == setRoyaltyInfoCheck(sender, feeBps) IN
    /\ stack = <<>>
    /\ royaltyRecipient' = IF e = "" THEN recipient ELSE royaltyRecipient
    /\ royaltyFeeBps' = IF e = "" THEN feeBps ELSE royaltyFeeBps
    /\ last' = [op |-> "setRoyaltyInfo", sender |-> sender,
                recipient |-> recipient, feeBps |-> feeBps, err |-> e]
    /\ UNCHANGED <<_nextTokenId, maxSupply, publicMintPrice, maxMintsPerAddress,
                   publicMintEnabled, _baseTokenURI, useJsonExtension,
                   mintsPerAddress, _owners, _tokenURIs, _paused, _owner,
                   balance, stack, baseSet>>

withdrawCheck(sender) ==
    IF ~onlyOwner(sender) THEN "OwnableUnauthorizedAccount"
    ELSE IF ~(balance > 0) THEN "No funds to withdraw"
    ELSE ""

\* payable(owner()).transfer(balance): the owner is an externally owned account.
Withdraw(sender) ==
    LET e == withdrawCheck(sender) IN
    /\ stack = <<>>
    /\ balance' = IF e = "" THEN 0 ELSE balance
    /\ last' = [op |-> "withdraw", sender |-> sender, err |-> e]
    /\ UNCHANGED <<_nextTokenId, maxSupply, publicMintPrice, maxMintsPerAddress,
                   publicMintEnabled, _baseTokenURI, useJsonExtension,
                   royaltyRecipient, royaltyFeeBps, mintsPerAddress, _owners,
                   _tokenURIs, _paused, _owner, stack, baseSet>>

\* pause(): onlyOwner, then Pausable._pause (whenNotPaused).
pauseCheck(sender) ==
    IF ~onlyOwner(sender) THEN "OwnableUnauthorizedAccount"
    ELSE IF _paused THEN "EnforcedPause"
    ELSE ""

Pause(sender) ==
    LET e == pauseCheck(sender) IN
    /\ stack = <<>>
    /\ _paused' = IF e = "" THEN TRUE ELSE _paused
    /\ last' = [op |-> "pause", sender |-> sender, err |-> e]
    /\ UNCHANGED <<_nextTokenId, maxSupply, publicMintPrice, maxMintsPerAddress,
                   publicMintEnabled, _baseTokenURI, useJsonExtension,
                   royaltyRecipient, royaltyFeeBps, mintsPerAddress, _owners,
                   _tokenURIs, _owner, balance, stack, baseSet>>

\* unpause(): onlyOwner, then Pausable._unpause (whenPaused).
unpauseCheck(sender) ==
    IF ~onlyOwner(sender) THEN "OwnableUnauthorizedAccount"
    ELSE IF ~_paused THEN "ExpectedPause"
    ELSE ""

Unpause(sender) ==
    LET e == unpauseCheck(sender) IN
    /\ stack = <<>>
    /\ _paused' = IF e = "" THEN FALSE ELSE _paused
    /\ last' = [op |-> "unpause", sender |-> sender, err |-> e]
    /\ UNCHANGED <<_nextTokenId, maxSupply, publicMintPrice, maxMintsPerAddress,
                   publicMintEnabled, _baseTokenURI, useJsonExtension,
                   royaltyRecipient, royaltyFeeBps, mintsPerAddress, _owners,
                   _tokenURIs, _owner, balance, stack, baseSet>>

\* Ownable.transferOwnership(newOwner): onlyOwner, newOwner not the zero address.
transferOwnershipCheck(sender, newOwner) ==
    IF ~onlyOwner(sender) THEN "OwnableUnauthorizedAccount"
    ELSE IF newOwner = ZeroAddress THEN "OwnableInvalidOwner"
    ELSE ""

TransferOwnership(sender, newOwner) ==
    LET e == transferOwnershipCheck(sender, newOwner) IN
    /\ stack = <<>>
    /\ _owner' = IF e = "" THEN newOwner ELSE _owner
    /\ last' = [op |-> "transferOwnership", sender |-> sender, err |-> e]
    /\ UNCHANGED <<_nextTokenId, maxSupply, publicMintPrice, maxMintsPerAddress,
                   publicMintEnabled, _baseTokenURI, useJsonExtension,
                   royaltyRecipient, royaltyFeeBps, mintsPerAddress, _owners,
                   _tokenURIs, _paused, balance, stack, baseSet>>

-----------------------------------------------------------------------------
(* Views *)

TokenIds == 0..(MaxSupplyArg + 1)

\* Faulty variant: the resolved URI is stored as the token's own URI.
TokenURI_caching(tokenId) ==
    LET r == tokenURI(tokenId) IN
    /\ stack = <<>>
    /\ _tokenURIs' = IF r.err = "" THEN (tokenId :> r.ret) @@ _tokenURIs
                     ELSE _tokenURIs
    /\ last' = [op |-> "tokenURI", tokenId |-> tokenId, err |-> r.err,
                ret |-> r.ret]
    /\ UNCHANGED <<_nextTokenId, maxSupply, publicMintPrice, maxMintsPerAddress,
                   publicMintEnabled, _baseTokenURI, useJsonExtension,
                   royaltyRecipient, royaltyFeeBps, mintsPerAddress, _owners,
                   _paused, _owner, balance, stack, baseSet>>

\* A call of tokenURI(tokenId): a view, recorded with what it returned.
TokenURI(tokenId) ==
    LET r == tokenURI(tokenId) IN
    /\ stack = <<>>
    /\ last' = [op |-> "tokenURI", tokenId |-> tokenId, err |-> r.err,
                ret |-> r.ret]
    /\ UNCHANGED <<contractState, stack, baseSet>>

\* Faulty variant: the amount rounded up.
royaltyInfo_roundUp(tokenId, salePrice) ==
    IF mulOverflows(salePrice, royaltyFeeBps)
    THEN [err |-> "Panic", receiver |-> ZeroAddress, royaltyAmount |-> 0]
    ELSE [err |-> "", receiver |-> royaltyRecipient,
          royaltyAmount |-> (salePrice * royaltyFeeBps + RoyaltyDenominator - 1)
                              \div RoyaltyDenominator]

\* royaltyInfo(uint256, salePrice): the token id is not looked at; the
\* product is checked uint256 arithmetic.
royaltyInfo(tokenId, salePrice) ==
    IF mulOverflows(salePrice, royaltyFeeBps)
    THEN [err |-> "Panic", receiver |-> ZeroAddress, royaltyAmount |-> 0]
    ELSE [err |-> "", receiver |-> royaltyRecipient,
          royaltyAmount |-> (salePrice * royaltyFeeBps) \div RoyaltyDenominator]

SalePrices == 0..MaxSalePrice \cup {TestSalePrice, UintMax}

\* A call of royaltyInfo(tokenId, salePrice): a view, recorded with what it
\* returned.
RoyaltyInfo(tokenId, salePrice) ==
    LET r == royaltyInfo(tokenId, salePrice) IN
    /\ stack = <<>>
    /\ last' = [op |-> "royaltyInfo", tokenId |-> tokenId,
                salePrice |-> salePrice, err |-> r.err,
                receiver |-> r.receiver, royaltyAmount |-> r.royaltyAmount]
    /\ UNCHANGED <<contractState, stack, baseSet>>

\* ERC721URIStorage._setTokenURI(tokenId, _tokenURI): the extension's internal
\* setter.  HyperERC721 never calls it; it is an action of SpecURIStorage only,
\* where it stands for a per-token URI set through the storage extension.
Overrides == {"", "1", "x", "a/1"}

SetTokenURI(tokenId, _tokenURI) ==
    /\ stack = <<>>
    /\ _tokenURIs' = (tokenId :> _tokenURI) @@ _tokenURIs
    /\ last' = [op |-> "_setTokenURI", tokenId |-> tokenId, err |-> ""]
    /\ UNCHANGED <<_nextTokenId, maxSupply, publicMintPrice, maxMintsPerAddress,
                   publicMintEnabled, _baseTokenURI, useJsonExtension,
                   royaltyRecipient, royaltyFeeBps, mintsPerAddress, _owners,
                   _paused, _owner, balance, stack, baseSet>>

-----------------------------------------------------------------------------
(* Specifications.  Every call is one serialized transaction sent by an       *)
(* externally owned account.                                                  *)

\* Metadata: minting (public mint free of charge), the two metadata setters
\* and tokenURI.
Next ==
    \/ \E s \in Accounts, to \in {Addr1, ZeroAddress}, q \in Quantities :
          Mint(s, to, q)
    \/ \E s \in Accounts : PublicMint(s, 1, 0)
    \/ \E s \in Accounts, e \in BOOLEAN :
          SetPublicMintSettings(s, e, 0, MaxPerAddressArg)
    \/ \E s \in Accounts, b \in BaseURIs : SetBaseURI(s, b)
    \/ \E s \in Accounts, f \in BOOLEAN : SetJsonExtension(s, f)
    \/ \E t \in TokenIds : TokenURI(t)

Spec == Init /\ [][Next]_vars

\* Metadata with per-token URIs set through the URI storage extension.
NextURIStorage ==
    \/ \E s \in Accounts, q \in 1..MaxQuantity : Mint(s, Addr1, q)
    \/ \E s \in Accounts, b \in BaseURIs : SetBaseURI(s, b)
    \/ \E s \in Accounts, f \in BOOLEAN : SetJsonExtension(s, f)
    \/ \E t \in 1..(MaxSupplyArg - 1), u \in Overrides : SetTokenURI(t, u)
    \/ \E t \in TokenIds : TokenURI(t)

SpecURIStorage == Init /\ [][NextURIStorage]_vars

\* Access control: every owner-only function, called by the owner and by
\* another account, with ownership transfers.
NextAccess ==
    \/ \E s \in Accounts : Mint(s, Addr1, 1)
    \/ \E s \in Accounts : PublicMint(s, 1, DefaultMintPrice)
    \/ \E s \in Accounts, e \in BOOLEAN :
          SetPublicMintSettings(s, e, DefaultMintPrice, MaxPerAddressArg)
    \/ \E s \in Accounts : SetBaseURI(s, "b/")
    \/ \E s \in Accounts, f \in BOOLEAN : SetJsonExtension(s, f)
    \/ \E s \in Accounts, f \in {0, MaxRoyaltyBps + 1} : SetRoyaltyInfo(s, Addr1, f)
    \/ \E s \in Accounts : Withdraw(s)
    \/ \E s \in Accounts : Pause(s)
    \/ \E s \in Accounts : Unpause(s)
    \/ \E s \in Accounts, n \in Accounts \cup {ZeroAddress} : TransferOwnership(s, n)

SpecAccess == InitTest /\ [][NextAccess]_vars

\* Minting and its settings, one serialized transaction at a time.
NextMint ==
    \/ \E s \in Accounts, q \in Quantities : Mint(s, Addr1, q)
    \/ \E s \in Accounts, q \in Quantities, v \in 0..MaxValue : PublicMint(s, q, v)
    \/ \E e \in BOOLEAN, m \in 1..MaxPerAddressArg :
          SetPublicMintSettings(Owner, e, DefaultMintPrice, m)
    \/ Pause(Owner)
    \/ Unpause(Owner)
    \/ Withdraw(Owner)

SpecMint == InitTest /\ [][NextMint]_vars

\* Minting with recipients that are contracts and call publicMint from their
\* onERC721Received callback.
NextReentrant ==
    \/ \E q \in 0..MaxQuantity : Mint(Owner, Addr1, q)
    \/ \E q \in 1..MaxQuantity : PublicMint(Addr1, q, q * DefaultMintPrice)
    \/ \E m \in {MaxPerAddressArg, DefaultMaxMints} :
          SetPublicMintSettings(Owner, TRUE, DefaultMintPrice, m)
    \/ \E to \in Contracts, q \in 1..MaxQuantity : MintEnter(Owner, to, q)
    \/ \E s \in Contracts, q \in 1..MaxQuantity :
          PublicMintEnter(s, q, q * DefaultMintPrice)
    \/ CallbackReturn

SpecReentrant == InitTest /\ [][NextReentrant]_vars

\* The metadata functions in states where the sale, the royalty, the pause
\* flag, the owner and the balance vary.
NextFrame ==
    \/ \E s \in Accounts, b \in BaseURIs : SetBaseURI(s, b)
    \/ \E s \in Accounts, f \in BOOLEAN : SetJsonExtension(s, f)
    \/ \E t \in TokenIds : TokenURI(t)
    \/ Mint(Owner, Addr1, 1)
    \/ PublicMint(Addr1, 1, DefaultMintPrice)
    \/ SetPublicMintSettings(Owner, TRUE, DefaultMintPrice, MaxPerAddressArg)
    \/ SetRoyaltyInfo(Owner, Addr1, MaxRoyaltyBps)
    \/ Pause(Owner)
    \/ Unpause(Owner)
    \/ \E s \in Accounts : TransferOwnership(s, Addr1)

SpecFrame == InitTest /\ [][NextFrame]_vars

\* The price of the sale: any price the owner sets, up to the largest value,
\* and any payment.
Prices == {0, DefaultMintPrice, MaxValue, UintMax}

NextPayment ==
    \/ \E s \in Accounts, q \in 0..MaxQuantity, v \in 0..MaxValue :
          PublicMint(s, q, v)
    \/ \E e \in BOOLEAN, p \in Prices :
          SetPublicMintSettings(Owner, e, p, MaxPerAddressArg)
    \/ Pause(Owner)
    \/ Unpause(Owner)
    \/ Withdraw(Owner)

SpecPayment == InitTest /\ [][NextPayment]_vars

\* The per-address limit of the sale, with tokens that also come from the
\* owner's mint and move between accounts.
NextLimit ==
    \/ \E s \in Accounts, q \in 0..MaxQuantity :
          PublicMint(s, q, q * DefaultMintPrice)
    \/ \E to \in Accounts : Mint(Owner, to, 1)
    \/ \E s \in Accounts, to \in Accounts, t \in 1..MaxSupplyArg :
          TransferFrom(s, s, to, t)
    \/ \E e \in BOOLEAN, m \in (MaxPerAddressArg - 1)..MaxPerAddressArg :
          SetPublicMintSettings(Owner, e, DefaultMintPrice, m)
    \/ Pause(Owner)
    \/ Unpause(Owner)

SpecLimit == InitTest /\ [][NextLimit]_vars

\* Royalties: the royalty settings and the royalty view, for tokens that
\* exist and for ids that do not.
FeeBpsArgs == {0, DeployRoyaltyBps, MaxRoyaltyBps - 1, MaxRoyaltyBps,
               MaxRoyaltyBps + 1}

NextRoyalty ==
    \/ \E s \in Accounts, r \in Accounts \cup {ZeroAddress}, f \in FeeBpsArgs :
          SetRoyaltyInfo(s, r, f)
    \/ \E t \in TokenIds, p \in SalePrices : RoyaltyInfo(t, p)
    \/ Mint(Owner, Addr1, 1)

SpecRoyalty == InitTest /\ [][NextRoyalty]_vars

\* Every state-changing function of the contract and of its base contracts
\* that the model has, with the two views.
NextOperations ==
    \/ Mint(Owner, Addr1, 1)
    \/ PublicMint(Addr1, 1, DefaultMintPrice)
    \/ \E b \in BaseURIs : SetBaseURI(Owner, b)
    \/ \E f \in BOOLEAN : SetJsonExtension(Owner, f)
    \/ SetPublicMintSettings(Owner, TRUE, DefaultMintPrice, MaxPerAddressArg)
    \/ SetRoyaltyInfo(Owner, Addr1, MaxRoyaltyBps)
    \/ Withdraw(Owner)
    \/ Pause(Owner)
    \/ Unpause(Owner)
    \/ TransferOwnership(Owner, Owner)
    \/ \E t \in 1..MaxSupplyArg : TransferFrom(Addr1, Addr1, Owner, t)
    \/ \E t \in TokenIds : TokenURI(t)
    \/ RoyaltyInfo(1, TestSalePrice)

SpecOperations == Init /\ [][NextOperations]_vars

-----------------------------------------------------------------------------
(* Vocabulary of the properties *)

\* The decimal numerals, written out.
decimal(t) ==
    CASE t = 0 -> "0" [] t = 1 -> "1" [] t = 2 -> "2" [] t = 3 -> "3"
      [] t = 4 -> "4" [] t = 5 -> "5" [] t = 6 -> "6" [] t = 7 -> "7"
      [] t = 8 -> "8" [] t = 9 -> "9" [] t = 10 -> "10" [] t = 11 -> "11"
      [] t = 12 -> "12" [] t = 13 -> "13" [] t = 14 -> "14" [] t = 15 -> "15"
      [] t = 16 -> "16"

Existing == {t \in DOMAIN _owners : _owners[t] # ZeroAddress}

HasOverride(t) == _tokenURIOf(t) # ""

extension(flag) == IF flag THEN ".json" ELSE ""

\* A call of tokenURI that returned, recorded in last.
Resolved == last.op = "tokenURI" /\ last.err = ""

-----------------------------------------------------------------------------
(* C1 *)

\* C1 (as stated): for every base URI, flag and existing token t without
\* override, tokenURI(t) = baseURI + decimal(t) + ".json" if the flag is set and
\* baseURI + decimal(t) if not.
C1_AnyBase ==
    \A t \in Existing :
        ~HasOverride(t) =>
            tokenURI(t) = Ok(_baseTokenURI \o decimal(t) \o extension(useJsonExtension))

\* C1 (amended): the same for every non-empty base URI, for the value of
\* tokenURI in every state and for every recorded call.
C1_NonEmptyBase ==
    /\ \A t \in Existing :
          (~HasOverride(t) /\ _baseTokenURI # "") =>
              tokenURI(t) = Ok(_baseTokenURI \o decimal(t) \o extension(useJsonExtension))
    /\ (Resolved /\ ~HasOverride(last.tokenId) /\ _baseTokenURI # "") =>
          last.ret = _baseTokenURI \o decimal(last.tokenId)
                       \o extension(useJsonExtension)

C1_Witness ==
    /\ Resolved
    /\ last.tokenId = 2
    /\ _baseTokenURI = "a/"
    /\ ~useJsonExtension
    /\ last.ret = "a/2"

-----------------------------------------------------------------------------
(* C2 *)

-----------------------------------------------------------------------------
(* C3 *)

-----------------------------------------------------------------------------
(* C4 *)

\* C4: with an empty base URI an existing token without override resolves to
\* the empty string, for both values of the flag.
C4_EmptyBase ==
    /\ \A t \in Existing :
          (_baseTokenURI = "" /\ ~HasOverride(t)) => tokenURI(t) = Ok("")
    /\ (Resolved /\ _baseTokenURI = "" /\ ~HasOverride(last.tokenId)) =>
          last.ret = ""

C4_Witness ==
    /\ Resolved
    /\ _baseTokenURI = ""
    /\ useJsonExtension
    /\ last.tokenId \in Existing
    /\ last.ret = ""

-----------------------------------------------------------------------------
(* C5 *)

\* C5: tokenURI(t) reverts for t = 0 and for every t >= nextTokenId(), and
\* returns for every t with 1 <= t < nextTokenId().
C5_NotFound ==
    /\ \A t \in TokenIds :
          IF 1 <= t /\ t < nextTokenId
          THEN tokenURI(t).err = ""
          ELSE tokenURI(t) = Revert("ERC721NonexistentToken")
    /\ last.op = "tokenURI" =>
          (last.err = "" <=> (1 <= last.tokenId /\ last.tokenId < nextTokenId))

C5_Witness ==
    /\ last.op = "tokenURI"
    /\ last.err = "ERC721NonexistentToken"
    /\ last.tokenId = nextTokenId
    /\ nextTokenId > 1

-----------------------------------------------------------------------------
(* C8 *)

OwnerOnly == {"mint", "setBaseURI", "setJsonExtension", "setPublicMintSettings",
              "setRoyaltyInfo", "withdraw", "pause", "unpause"}

\* C8: a call of mint, setBaseURI, setJsonExtension, setPublicMintSettings,
\* setRoyaltyInfo, withdraw, pause or unpause by an account other than the
\* current owner fails with OwnableUnauthorizedAccount and leaves the whole
\* contract state unchanged.
C8_Unauthorized ==
    [][(last'.op \in OwnerOnly /\ last'.sender # _owner) =>
          (last'.err = "OwnableUnauthorizedAccount" /\ UNCHANGED contractState)]_vars

\* The former owner is turned away from withdraw while the contract holds funds.
C8_Witness ==
    /\ last.op = "withdraw"
    /\ last.sender = Owner
    /\ _owner = Addr1
    /\ last.err = "OwnableUnauthorizedAccount"
    /\ balance > 0

-----------------------------------------------------------------------------
(* C9 *)

\* C9: after a successful setBaseURI(x) with non-empty x and until the next
\* successful setBaseURI, every existing token without override, minted
\* before or after the call, resolves to x + decimal(t), plus ".json" when the
\* flag is set, and to nothing built from an earlier base.
C9_BaseVisible ==
    (baseSet.set /\ baseSet.uri # "") =>
        /\ \A t \in Existing :
              ~HasOverride(t) =>
                  tokenURI(t) = Ok(baseSet.uri \o decimal(t)
                                     \o extension(useJsonExtension))
        /\ (Resolved /\ ~HasOverride(last.tokenId)) =>
              last.ret = baseSet.uri \o decimal(last.tokenId)
                           \o extension(useJsonExtension)

\* The base was set to "b/" and an existing token resolves from it.
C9_Witness ==
    /\ baseSet.set
    /\ baseSet.uri = "b/"
    /\ Resolved
    /\ last.tokenId \in Existing
    /\ last.ret = "b/" \o decimal(last.tokenId) \o extension(useJsonExtension)

-----------------------------------------------------------------------------
(* C10 *)

ToggledTo(flag) ==
    /\ last'.op = "setJsonExtension"
    /\ last'.err = ""
    /\ last'.useExtension = flag

\* C10: for an existing token without override and a non-empty base URI,
\* tokenURI(t) is baseURI + decimal(t) after setJsonExtension(false) and
\* baseURI + decimal(t) + ".json" after setJsonExtension(true); the toggle
\* changes neither the base URI nor the tokens, so switching the flag off and
\* on again gives every token the URI it had with the flag on.
C10_Toggle ==
    [][\A flag \in BOOLEAN :
          ToggledTo(flag) =>
              /\ _baseTokenURI' = _baseTokenURI
              /\ _owners' = _owners
              /\ _tokenURIs' = _tokenURIs
              /\ \A t \in Existing :
                    (~HasOverride(t) /\ _baseTokenURI # "") =>
                        tokenURI(t)' = Ok(_baseTokenURI \o decimal(t)
                                            \o extension(flag))]_vars

\* The flag has just been switched on and token 1 resolves with ".json".
C10_Witness ==
    /\ last.op = "setJsonExtension"
    /\ last.err = ""
    /\ last.useExtension
    /\ 1 \in Existing
    /\ tokenURI(1) = Ok("a/1.json")

-----------------------------------------------------------------------------
(* C6 *)

Minted == last.op \in {"mint", "publicMint"} /\ last.err = ""

\* The existing ids are 1..nextTokenId()-1, nextTokenId() starts at 1.
SequentialIds ==
    /\ Existing = 1..(nextTokenId - 1)
    /\ last.op = "constructor" => nextTokenId = 1

\* The call that just returned gave its recipient the ids first..first+q-1.
ConsecutiveIds ==
    /\ last.ids = last.first..(last.first + last.quantity - 1)
    /\ \A t \in last.ids : _ownerOf(t) = last.to

\* C6 (as stated): the existing ids are exactly 1..nextTokenId()-1,
\* nextTokenId() starts at 1 and never decreases, and every successful mint or
\* publicMint of quantity q gives its recipient the q consecutive ids starting
\* at the nextTokenId() of before the call.
C6_ConsecutiveAlways ==
    /\ [](SequentialIds /\ (Minted => ConsecutiveIds))
    /\ [][_nextTokenId' >= _nextTokenId]_vars

\* C6 (amended): the same, the consecutive ids for every successful mint or
\* publicMint during which no other mint call was made from a recipient's
\* onERC721Received callback.
C6_ConsecutiveUnlessReentered ==
    /\ [](SequentialIds /\ ((Minted /\ ~last.reentered) => ConsecutiveIds))
    /\ [][_nextTokenId' >= _nextTokenId]_vars

\* A mint of two tokens to an account has returned, after an earlier one.
C6_Witness ==
    /\ Minted
    /\ ~last.reentered
    /\ last.quantity = 2
    /\ last.first = 2
    /\ last.ids = {2, 3}
    /\ stack = <<>>

-----------------------------------------------------------------------------
(* C7 *)

\* The call of this step is a mint or publicMint of more than what is left.
OverSupply ==
    /\ last'.op \in {"mint", "publicMint"}
    /\ totalMinted + last'.quantity > maxSupply

\* The checks made before the supply check pass for the call of this step.
EarlierChecksPass ==
    /\ _nextTokenId + last'.quantity <= UintMax
    /\ last'.op = "mint" => last'.sender = _owner
    /\ last'.op = "publicMint" => (~_paused /\ publicMintEnabled)

\* C7 (as stated): with serialized transactions totalMinted() <= maxSupply in
\* every state, maxSupply never changes, and a mint or publicMint with
\* totalMinted() + q > maxSupply reverts with "Exceeds maximum supply" and
\* mints nothing.
C7_AlwaysSupplyMessage ==
    /\ [](totalMinted <= maxSupply)
    /\ [][maxSupply' = maxSupply]_vars
    /\ [][OverSupply =>
            (last'.err = "Exceeds maximum supply" /\ UNCHANGED contractState)]_vars

\* C7 (amended): with serialized transactions totalMinted() <= maxSupply in
\* every state, maxSupply never changes, and a mint or publicMint with
\* totalMinted() + q > maxSupply reverts and mints nothing; it reverts with
\* "Exceeds maximum supply" when the checks before the supply check pass: the
\* caller is the owner (mint), the contract is not paused and public mint is
\* enabled (publicMint), and _nextTokenId + q does not overflow.
C7_SupplyCap ==
    /\ [](totalMinted <= maxSupply)
    /\ [][maxSupply' = maxSupply]_vars
    /\ [][OverSupply =>
            /\ last'.err # ""
            /\ UNCHANGED contractState
            /\ EarlierChecksPass => last'.err = "Exceeds maximum supply"]_vars

\* The supply is used up and a public mint of one more token was turned away.
C7_Witness ==
    /\ last.op = "publicMint"
    /\ last.quantity = 1
    /\ last.err = "Exceeds maximum supply"
    /\ totalMinted = maxSupply

-----------------------------------------------------------------------------
(* C11 *)

\* C11: setBaseURI is idempotent.  A successful setBaseURI(x) that directly
\* follows a successful setBaseURI(x) leaves the whole contract state as the
\* first call left it, and tokenURI(t) is the same after the second call as
\* after the first, for every token id t.
C11_Idempotent ==
    [][(last'.op = "setBaseURI" /\ last'.err = "" /\ last'.again) =>
          /\ UNCHANGED contractState
          /\ \A t \in TokenIds : tokenURI(t)' = tokenURI(t)]_vars

\* The owner has set the base "b/" twice in a row; token 1 resolves from it.
C11_Witness ==
    /\ last.op = "setBaseURI"
    /\ last.err = ""
    /\ last.again
    /\ last.baseURI = "b/"
    /\ 1 \in Existing
    /\ tokenURI(1) = Ok("b/1" \o extension(useJsonExtension))

-----------------------------------------------------------------------------
(* C12 *)

\* The contract state without the base URI, and without the flag.
exceptBaseURI ==
    <<_nextTokenId, maxSupply, publicMintPrice, maxMintsPerAddress,
      publicMintEnabled, useJsonExtension, royaltyRecipient, royaltyFeeBps,
      mintsPerAddress, _owners, _tokenURIs, _paused, _owner, balance>>

exceptJsonFlag ==
    <<_nextTokenId, maxSupply, publicMintPrice, maxMintsPerAddress,
      publicMintEnabled, _baseTokenURI, royaltyRecipient, royaltyFeeBps,
      mintsPerAddress, _owners, _tokenURIs, _paused, _owner, balance>>

\* C12: a successful setBaseURI stores its argument as the base URI and
\* changes nothing else, a successful setJsonExtension stores its argument as
\* the flag and changes nothing else (token ownership, nextTokenId, mint
\* counts, public mint settings, royalty settings, pause flag, owner and
\* balance stay as they are), and a call of tokenURI, returning or reverting,
\* changes no state at all.
C12_Frame ==
    [][/\ (last'.op = "setBaseURI" /\ last'.err = "") =>
            (_baseTokenURI' = last'.baseURI /\ UNCHANGED exceptBaseURI)
       /\ (last'.op = "setJsonExtension" /\ last'.err = "") =>
            (useJsonExtension' = last'.useExtension /\ UNCHANGED exceptJsonFlag)
       /\ last'.op = "tokenURI" => UNCHANGED contractState]_vars

\* The base has just been replaced by "b/" in a paused state with tokens, a
\* public mint on record, funds, a new owner and a new royalty recipient.
C12_Witness ==
    /\ last.op = "setBaseURI"
    /\ last.err = ""
    /\ ~last.again
    /\ _baseTokenURI = "b/"
    /\ nextTokenId > 2
    /\ mintsOf(Addr1) = 1
    /\ publicMintEnabled
    /\ royaltyRecipient = Addr1
    /\ _paused
    /\ _owner = Addr1
    /\ balance > 0

-----------------------------------------------------------------------------
(* C13 *)

\* The call of this step is a publicMint that returned, not re-entered.
PublicMinted ==
    /\ last'.op = "publicMint"
    /\ last'.err = ""
    /\ ~last'.reentered

\* C13: a successful publicMint(q) by a with payment v, not re-entered, gives
\* a exactly q new tokens (balanceOf(a) grows by q), adds q to
\* mintsPerAddress[a] and to nextTokenId, and adds the whole of v to the
\* contract's balance, also what is paid above publicMintPrice * q; the tokens
\* and the mint count of every other address stay as they are.
C13_PublicMintEffect ==
    [][\A a \in Accounts \cup Contracts :
          (PublicMinted /\ last'.sender = a) =>
              LET q == last'.quantity
                  v == last'.value
              IN  /\ balanceOf(a)' = balanceOf(a) + q
                  /\ Cardinality(last'.ids) = q
                  /\ \A t \in last'.ids : t \notin Existing /\ _ownerOf(t)' = a
                  /\ mintsOf(a)' = mintsOf(a) + q
                  /\ nextTokenId' = nextTokenId + q
                  /\ balance' = balance + v
                  /\ \A t \in Existing : _ownerOf(t)' = _ownerOf(t)
                  /\ \A b \in (Accounts \cup Contracts) \ {a} :
                        /\ balanceOf(b)' = balanceOf(b)
                        /\ mintsOf(b)' = mintsOf(b)]_vars

\* Addr1 has paid 2 for one token priced 1: the contract holds both units.
C13_Witness ==
    /\ last.op = "publicMint"
    /\ last.err = ""
    /\ last.sender = Addr1
    /\ last.quantity = 1
    /\ last.value = 2
    /\ publicMintPrice = 1
    /\ balance >= 2
    /\ balanceOf(Addr1) >= 2
    /\ mintsOf(Addr1) = 1

-----------------------------------------------------------------------------
(* C14 *)

\* The call of this step is a publicMint that passes every check made before
\* the payment check.
ReachesPaymentCheck ==
    /\ last'.op = "publicMint"
    /\ ~_paused
    /\ publicMintEnabled
    /\ last'.quantity > 0
    /\ _nextTokenId + last'.quantity <= UintMax
    /\ _nextTokenId + last'.quantity - 1 <= maxSupply
    /\ mintsOf(last'.sender) + last'.quantity <= maxMintsPerAddress

Underpaid == last'.value < publicMintPrice * last'.quantity

\* C14 (as stated): a publicMint(q) with payment v < publicMintPrice * q that
\* passes all earlier checks reverts with "Insufficient payment" and leaves
\* token ownership, nextTokenId, mintsPerAddress and the balance unchanged;
\* with v >= publicMintPrice * q the payment check passes.
C14_InsufficientPayment ==
    [][ReachesPaymentCheck =>
          IF Underpaid
          THEN last'.err = "Insufficient payment" /\ UNCHANGED contractState
          ELSE last'.err = ""]_vars

\* C14 (amended): a publicMint(q) with payment v < publicMintPrice * q that
\* passes all earlier checks reverts and leaves token ownership, nextTokenId,
\* mintsPerAddress and the balance unchanged; it reverts with "Insufficient
\* payment" when publicMintPrice * q fits in a uint256, and with the
\* arithmetic panic when it does not.  With v >= publicMintPrice * q the
\* payment check passes.
C14_PaymentCheck ==
    [][ReachesPaymentCheck =>
          IF Underpaid
          THEN /\ UNCHANGED contractState
               /\ last'.err = IF publicMintPrice * last'.quantity <= UintMax
                              THEN "Insufficient payment" ELSE "Panic"
          ELSE last'.err = ""]_vars

\* Two tokens at price 1 were asked for with a payment of 1.
C14_Witness ==
    /\ last.op = "publicMint"
    /\ last.err = "Insufficient payment"
    /\ last.quantity = 2
    /\ last.value = 1
    /\ publicMintPrice = 1
    /\ publicMintEnabled
    /\ ~_paused

-----------------------------------------------------------------------------
(* C15 *)

\* The call of this step is a publicMint by a that would take a above the
\* per-address maximum.
OverLimit(a) ==
    /\ last'.op = "publicMint"
    /\ last'.sender = a
    /\ mintsOf(a) + last'.quantity > maxMintsPerAddress

\* The checks made before the per-address check pass for that call.
ReachesLimitCheck ==
    /\ ~_paused
    /\ publicMintEnabled
    /\ last'.quantity > 0
    /\ _nextTokenId + last'.quantity <= UintMax
    /\ _nextTokenId + last'.quantity - 1 <= maxSupply

\* mintsPerAddress[a] is zero at construction and grows by q with every
\* successful publicMint(q) by a, and changes with nothing else: not with the
\* owner's mint, not with a transfer to a or from a.
CountsPublicMints ==
    /\ [](last.op = "constructor" =>
            \A a \in Accounts \cup Contracts : mintsOf(a) = 0)
    /\ [][\A a \in Accounts \cup Contracts :
            mintsOf(a)' = mintsOf(a) +
                (IF last'.op = "publicMint" /\ last'.err = "" /\ last'.sender = a
                 THEN last'.quantity ELSE 0)]_vars

\* C15 (as stated): publicMint(q) by a reverts with "Exceeds max mints per
\* address" and changes nothing whenever mintsPerAddress[a] + q >
\* maxMintsPerAddress, where mintsPerAddress[a] is the total of the quantities
\* of a's earlier successful publicMint calls, which the owner's mint and
\* transfers do not change.
C15_AlwaysLimitMessage ==
    /\ [][\A a \in Accounts \cup Contracts :
            OverLimit(a) =>
                /\ last'.err = "Exceeds max mints per address"
                /\ UNCHANGED contractState]_vars
    /\ CountsPublicMints

\* C15 (amended): such a publicMint reverts and changes nothing; it reverts
\* with "Exceeds max mints per address" when the checks made before the
\* per-address check pass: the contract is not paused, public mint is
\* enabled, q > 0 and the supply check passes.  mintsPerAddress[a] is the
\* total of the quantities of a's earlier successful publicMint calls, which
\* the owner's mint and transfers do not change.
C15_LimitCheck ==
    /\ [][\A a \in Accounts \cup Contracts :
            OverLimit(a) =>
                /\ last'.err # ""
                /\ UNCHANGED contractState
                /\ ReachesLimitCheck =>
                      last'.err = "Exceeds max mints per address"]_vars
    /\ CountsPublicMints

\* Addr1 has made its two public mints and given one token away: holding one
\* token, it is still turned away from a third public mint.
C15_Witness ==
    /\ last.op = "publicMint"
    /\ last.sender = Addr1
    /\ last.quantity = 1
    /\ last.err = "Exceeds max mints per address"
    /\ mintsOf(Addr1) = 2
    /\ maxMintsPerAddress = 2
    /\ balanceOf(Addr1) = 1

-----------------------------------------------------------------------------
(* C16 *)

WithinMax(a) == mintsOf(a) <= maxMintsPerAddress

\* The call of this step is a successful setPublicMintSettings that lowers
\* the per-address maximum.
LowersMax ==
    /\ last'.op = "setPublicMintSettings"
    /\ last'.err = ""
    /\ maxMintsPerAddress' < maxMintsPerAddress

\* C16 (as stated): in every reachable state and for every address a,
\* mintsPerAddress[a] <= maxMintsPerAddress.
C16_NeverAboveMax ==
    \A a \in Accounts \cup Contracts : WithinMax(a)

\* C16 (amended): mintsPerAddress[a] <= maxMintsPerAddress holds after
\* construction and after every successful publicMint by a, and no
\* transaction takes an address from within the maximum to above it, except
\* a setPublicMintSettings that lowers the maximum.
C16_AboveMaxOnlyByLowering ==
    /\ [](last.op = "constructor" =>
            \A a \in Accounts \cup Contracts : WithinMax(a))
    /\ [][\A a \in Accounts \cup Contracts :
            /\ (last'.op = "publicMint" /\ last'.err = "" /\ last'.sender = a)
                  => WithinMax(a)'
            /\ (WithinMax(a) /\ ~WithinMax(a)') => LowersMax]_vars

\* A public mint has taken its sender exactly to the maximum.
C16_Witness ==
    /\ last.op = "publicMint"
    /\ last.err = ""
    /\ last.quantity = 2
    /\ mintsOf(last.sender) = maxMintsPerAddress

-----------------------------------------------------------------------------
(* C17 *)

\* The call of this step is a successful setPublicMintSettings by the owner
\* that leaves public mint enabled.
OwnerEnables ==
    /\ last'.op = "setPublicMintSettings"
    /\ last'.err = ""
    /\ last'.sender = _owner
    /\ publicMintEnabled'

\* C17: public mint is disabled after construction; while it is disabled and
\* the contract is not paused, every publicMint, whatever its quantity and
\* payment, reverts with "Public mint not enabled" and mints nothing; public
\* mint becomes enabled only by a setPublicMintSettings(true, ., .) of the
\* owner, and a publicMint succeeds only while it is enabled.
C17_DisabledUntilEnabled ==
    /\ [](last.op = "constructor" => ~publicMintEnabled)
    /\ [][(last'.op = "publicMint" /\ ~publicMintEnabled /\ ~_paused) =>
            (last'.err = "Public mint not enabled" /\ UNCHANGED contractState)]_vars
    /\ [][(last'.op = "publicMint" /\ last'.err = "") => publicMintEnabled]_vars
    /\ [][(~publicMintEnabled /\ publicMintEnabled') => OwnerEnables]_vars

\* With public mint switched off again after a sale, a paid publicMint of one
\* token is turned away.
C17_Witness ==
    /\ last.op = "publicMint"
    /\ last.err = "Public mint not enabled"
    /\ last.quantity = 1
    /\ last.value = 1
    /\ ~publicMintEnabled
    /\ ~_paused
    /\ mintsOf(Addr1) > 0
    /\ totalMinted < maxSupply

-----------------------------------------------------------------------------
(* C18 *)

\* The call of this step is a publicMint that meets every condition other
\* than the pause: enabled, quantity, supply, per-address limit, payment.
MeetsMintConditions ==
    /\ last'.op = "publicMint"
    /\ publicMintEnabled
    /\ last'.quantity > 0
    /\ _nextTokenId + last'.quantity - 1 <= maxSupply
    /\ mintsOf(last'.sender) + last'.quantity <= maxMintsPerAddress
    /\ last'.value >= publicMintPrice * last'.quantity

-----------------------------------------------------------------------------
(* C19 *)

\* amount = floor(salePrice * feeBps / 10000)
IsFloorShare(amount, salePrice, feeBps) ==
    /\ amount * 10000 <= salePrice * feeBps
    /\ salePrice * feeBps < (amount + 1) * 10000

\* The last call, a royaltyInfo, returned the current recipient and the
\* rounded-down share of the sale price.
ReturnsShare ==
    /\ last.err = ""
    /\ last.receiver = royaltyRecipient
    /\ IsFloorShare(last.royaltyAmount, last.salePrice, royaltyFeeBps)

\* salePrice * royaltyFeeBps fits in a uint256.
ShareFits == royaltyFeeBps = 0 \/ last.salePrice <= UintMax \div royaltyFeeBps

\* C19 (as stated): royaltyInfo(tokenId, salePrice) returns the current
\* royaltyRecipient and floor(salePrice * royaltyFeeBps / 10000), for every
\* token id, existing or not, and every sale price, so also with the recipient
\* and fee that a successful setRoyaltyInfo has stored.
C19_AnySalePrice ==
    last.op = "royaltyInfo" => ReturnsShare

\* C19 (amended): the same whenever salePrice * royaltyFeeBps fits in a
\* uint256; when it does not, royaltyInfo reverts with the arithmetic panic.
C19_RoyaltyShare ==
    last.op = "royaltyInfo" =>
        IF ShareFits THEN ReturnsShare ELSE last.err = "Panic"

\* After setRoyaltyInfo(addr1, 1000), the royalty of a sale at 19 for an id
\* that was never minted is 1 (1.9 rounded down), to addr1.
C19_Witness ==
    /\ last.op = "royaltyInfo"
    /\ last.err = ""
    /\ last.tokenId \notin Existing
    /\ last.salePrice = 19
    /\ royaltyFeeBps = 1000
    /\ royaltyRecipient = Addr1
    /\ last.receiver = Addr1
    /\ last.royaltyAmount = 1

-----------------------------------------------------------------------------
(* C20 *)

\* C20: a setRoyaltyInfo(recipient, feeBps) by the owner reverts with
\* "Royalty fee too high" exactly when feeBps > 1000, and then leaves
\* royaltyRecipient and royaltyFeeBps as they were; with feeBps <= 1000, so
\* also with 1000 and with 0, it returns and stores both arguments.
C20_FeeCap ==
    [][(last'.op = "setRoyaltyInfo" /\ last'.sender = _owner) =>
          IF last'.feeBps > 1000
          THEN /\ last'.err = "Royalty fee too high"
               /\ UNCHANGED <<royaltyRecipient, royaltyFeeBps>>
          ELSE /\ last'.err = ""
               /\ royaltyRecipient' = last'.recipient
               /\ royaltyFeeBps' = last'.feeBps]_vars

\* The owner has set the largest fee allowed, 1000, with a new recipient.
C20_Witness ==
    /\ last.op = "setRoyaltyInfo"
    /\ last.err = ""
    /\ last.feeBps = 1000
    /\ last.recipient = Addr1
    /\ royaltyFeeBps = 1000
    /\ royaltyRecipient = Addr1

-----------------------------------------------------------------------------
(* C21 *)

\* The id the next single-token mint will use is above every id in use.
NextIdIsFresh == \A t \in Existing : t < _nextTokenId

\* The ids assigned by this step were not in use, are above every id assigned
\* before, and the tokens assigned before keep their holder.
AssignsNewIds ==
    /\ \A t \in DOMAIN _owners' \ DOMAIN _owners :
          /\ t >= _nextTokenId
          /\ t < _nextTokenId'
          /\ \A u \in Existing : t > u
    /\ \A u \in Existing : _ownerOf(u)' = _ownerOf(u)

\* C21: no token id is assigned twice, also when a mint is re-entered from a
\* recipient's onERC721Received callback: every single-token mint, of the
\* outer or of a nested call, uses an id above every id assigned before it,
\* and no _safeMint is attempted for an id that exists, so that no mint fails
\* with ERC721InvalidSender.
C21_NoIdTwice ==
    /\ [](NextIdIsFresh /\ last.err # "ERC721InvalidSender")
    /\ [][AssignsNewIds]_vars

\* Inside the callback of a mint that holds id 1, a nested publicMint has
\* minted id 2 and waits in its own callback.
C21_Witness ==
    /\ Len(stack) = 2
    /\ stack[1].fn = "mint"
    /\ stack[1].ids = {1}
    /\ stack[2].fn = "publicMint"
    /\ stack[2].ids = {2}
    /\ _nextTokenId = 3

-----------------------------------------------------------------------------
(* C22 *)

\* No token has a URI of its own.
NoOverride == \A t \in TokenIds : ~HasOverride(t)

====
